---- MODULE Spec2Model ----
(***************************************************************************)
(* SMLS social login gateway: the Flask routes of src/src/app.py acting on *)
(* one browser session, and the OAuth 2.0 client of                        *)
(* src/src/auth/oauth_manager.py they call.                                *)
(*                                                                         *)
(* Every request is one atomic step: the server-side session is loaded     *)
(* when the request starts and saved when it ends.  Answers of the         *)
(* provider endpoints are inputs of the callback steps.  Python values are *)
(* strings; None (and an absent query parameter) is the string NONE; a     *)
(* dict is a function whose DOMAIN is its key set.                         *)
(***************************************************************************)
EXTENDS Integers, Sequences, FiniteSets, TLC

VARIABLES
    session,    \* the Flask session of one browser: dict key -> value
    attempts,   \* number of authorization URLs built so far (draws of `secrets`)
    consumed,   \* history: state values of the flows that reached Completed
    issued,     \* history: state values placed in authorization URLs so far
    last,       \* history: what the last request did (outcome, flash, calls...)
    BASE_URL,   \* Config.BASE_URL as urlparse sees it, set when the app loads
    pending,    \* the callback request waiting for a provider endpoint, if any
    derived     \* history: the challenge first derived from each code verifier

vars == <<session, attempts, consumed, issued, last, BASE_URL, pending, derived>>

\* ------------------------------------------------------------------ bounds

\* Login initiations per behaviour (each draws a fresh state and verifier).
MaxAttempts == 3

\* ------------------------------------------------------- Python primitives

NONE == "<None>"

\* Python truthiness of a str-or-None value: `if not x`.
Truthy(v) == v # NONE /\ v # ""

\* dict.get(k) / dict.get(k, default)
GetOr(d, k, default) == IF k \in DOMAIN d THEN d[k] ELSE default

Get(d, k) == GetOr(d, k, NONE)

\* d[k] = v
Set(d, k, v) == [x \in DOMAIN d \cup {k} |-> IF x = k THEN v ELSE d[x]]

\* d.pop(k, None)
Pop(d, k) == [x \in DOMAIN d \ {k} |-> d[x]]

EmptyDict == [x \in {} |-> NONE]

RECURSIVE LStrip(_)
LStrip(s) == IF Len(s) > 0 /\ SubSeq(s, 1, 1) = " "
             THEN LStrip(SubSeq(s, 2, Len(s))) ELSE s

RECURSIVE RStrip(_)
RStrip(s) == IF Len(s) > 0 /\ SubSeq(s, Len(s), Len(s)) = " "
             THEN RStrip(SubSeq(s, 1, Len(s) - 1)) ELSE s

\* str.strip()
Strip(s) == RStrip(LStrip(s))

\* str.endswith(suffix)
EndsWith(s, suffix) ==
    /\ Len(s) >= Len(suffix)
    /\ SubSeq(s, Len(s) - Len(suffix) + 1, Len(s)) = suffix

\* ------------------------------------------------------------------ Config

GOOGLE_AUTH_URL == "https://accounts.google.com/o/oauth2/v2/auth"
GOOGLE_TOKEN_URL == "https://oauth2.googleapis.com/token"
GOOGLE_USER_INFO_URL == "https://www.googleapis.com/oauth2/v2/userinfo"
LINKEDIN_AUTH_URL == "https://www.linkedin.com/oauth/v2/authorization"
LINKEDIN_TOKEN_URL == "https://www.linkedin.com/oauth/v2/accessToken"
LINKEDIN_USER_INFO_URL == "https://api.linkedin.com/v2/userinfo"
LINKEDIN_PICTURE_URL ==
    "https://api.linkedin.com/v2/people/~:(profilePicture(displayImage~:playableStreams))"

\* urlparse(url): scheme, hostname, port (0 when the URL names none) and path.
ParsedUrl(scheme, hostname, port, path) ==
    [scheme |-> scheme, hostname |-> hostname, port |-> port, path |-> path]

\* The URL a ParsedUrl was parsed from.
UrlText(u) ==
    u.scheme \o "://" \o u.hostname
        \o (IF u.port = 0 THEN "" ELSE ":" \o ToString(u.port)) \o u.path

\* The default of Config.BASE_URL, of --base-url and of the BASE_URL variable.
DefaultBaseUrl == ParsedUrl("http", "localhost", 5000, "")

\* Base URLs an operator can configure (the examples of --base-url).
BaseUrls ==
    { DefaultBaseUrl,
      ParsedUrl("https", "example.com", 0, "/app"),
      ParsedUrl("http", "mydomain.com", 8080, "/smls") }

\* get_runtime_base_url(): https becomes http, a missing port (0) becomes 8080.
get_runtime_base_url(u) ==
    LET scheme == IF u.scheme = "https" THEN "http" ELSE u.scheme
        port == IF u.port = 0 THEN 8080 ELSE u.port
    IN  scheme \o "://" \o u.hostname \o ":" \o ToString(port) \o u.path

RUNTIME_BASE_URL == get_runtime_base_url(BASE_URL)

get_google_redirect_uri == RUNTIME_BASE_URL \o "/auth/google/callback"

get_linkedin_redirect_uri == RUNTIME_BASE_URL \o "/auth/linkedin/callback"

\* Faulty variant: lengths are measured on the credentials as given.
validate_oauth_credentials_unstripped(provider, client_id, client_secret) ==
    IF ~Truthy(client_id) \/ ~Truthy(client_secret)
    THEN <<FALSE, "Client ID and Client Secret are required">>
    ELSE IF provider = "google"
    THEN IF Len(client_id) < 10
         THEN <<FALSE, "Client ID appears to be too short">>
         ELSE IF Len(client_secret) < 10
         THEN <<FALSE, "Client Secret appears to be too short">>
         ELSE IF ~EndsWith(client_id, ".apps.googleusercontent.com")
         THEN <<FALSE, "Google Client ID should end with '.apps.googleusercontent.com'">>
         ELSE <<TRUE, "Credentials appear valid">>
    ELSE IF Len(client_id) < 8
         THEN <<FALSE, "Client ID appears to be too short">>
         ELSE IF Len(client_secret) < 8
         THEN <<FALSE, "Client Secret appears to be too short">>
         ELSE <<TRUE, "Credentials appear valid">>

\* Config.validate_oauth_credentials -> <<is_valid, message>>
validate_oauth_credentials(provider, client_id, client_secret) ==
    IF ~Truthy(client_id) \/ ~Truthy(client_secret)
    THEN <<FALSE, "Client ID and Client Secret are required">>
    ELSE IF provider = "google"
    THEN IF Len(Strip(client_id)) < 10
         THEN <<FALSE, "Client ID appears to be too short">>
         ELSE IF Len(Strip(client_secret)) < 10
         THEN <<FALSE, "Client Secret appears to be too short">>
         ELSE IF ~EndsWith(client_id, ".apps.googleusercontent.com")
         THEN <<FALSE, "Google Client ID should end with '.apps.googleusercontent.com'">>
         ELSE <<TRUE, "Credentials appear valid">>
    ELSE IF provider = "linkedin"
    THEN IF Len(Strip(client_id)) < 8
         THEN <<FALSE, "LinkedIn Client ID appears to be too short">>
         ELSE IF Len(Strip(client_secret)) < 8
         THEN <<FALSE, "LinkedIn Client Secret appears to be too short">>
         ELSE <<TRUE, "Credentials appear valid">>
    ELSE IF Len(Strip(client_id)) < 8
         THEN <<FALSE, "Client ID appears to be too short">>
         ELSE IF Len(Strip(client_secret)) < 8
         THEN <<FALSE, "Client Secret appears to be too short">>
         ELSE <<TRUE, "Credentials appear valid">>

\* ------------------------------------------------ the text of the secrets

\* The base64url alphabet: the character of sextet k is at position k + 1.
Base64UrlAlphabet ==
    "ABCDEFGHIJKLMNOPQRSTUVWXYZabcdefghijklmnopqrstuvwxyz0123456789-_"

Base64Char(sextet) == SubSeq(Base64UrlAlphabet, sextet + 1, sextet + 1)

\* The byte at place k of a byte string, 0 past its end (the zero bits
\* the encoding fills the last group with).
ByteAt(bytes, k) == IF k <= Len(bytes) THEN bytes[k] ELSE 0

\* Character p of the encoding: every group of three bytes gives four
\* sextets, and a sextet that holds no bit of the input is written "=".
EncodedChar(bytes, p) ==
    LET g == 3 * ((p - 1) \div 4)
        b1 == ByteAt(bytes, g + 1)
        b2 == ByteAt(bytes, g + 2)
        b3 == ByteAt(bytes, g + 3)
        r == (p - 1) % 4
    IN  IF r = 0 THEN Base64Char(b1 \div 4)
        ELSE IF r = 1 THEN Base64Char((b1 % 4) * 16 + b2 \div 16)
        ELSE IF r = 2
        THEN IF g + 2 > Len(bytes) THEN "="
             ELSE Base64Char((b2 % 16) * 4 + b3 \div 64)
        ELSE IF g + 3 > Len(bytes) THEN "=" ELSE Base64Char(b3 % 64)

\* The characters lo..hi of the encoding, joined.
RECURSIVE EncodedText(_, _, _)
EncodedText(bytes, lo, hi) ==
    IF lo > hi THEN ""
    ELSE IF lo = hi THEN EncodedChar(bytes, lo)
    ELSE LET mid == (lo + hi) \div 2
         IN  EncodedText(bytes, lo, mid) \o EncodedText(bytes, mid + 1, hi)

\* base64.urlsafe_b64encode(bytes): four characters for every three bytes,
\* the last group padded with "=".
urlsafe_b64encode(bytes) == EncodedText(bytes, 1, 4 * ((Len(bytes) + 2) \div 3))

\* str.rstrip('=')
RECURSIVE RStripPadding(_)
RStripPadding(text) ==
    IF Len(text) > 0 /\ SubSeq(text, Len(text), Len(text)) = "="
    THEN RStripPadding(SubSeq(text, 1, Len(text) - 1)) ELSE text

\* secrets.token_urlsafe(nbytes), given the nbytes random bytes it drew.
token_urlsafe(random_bytes) == RStripPadding(urlsafe_b64encode(random_bytes))

\* os.urandom(nbytes): the nbytes bytes of draw number `draw`.  Draw 0 is
\* all zeros; the other draws differ from it and from one another.
Urandom(nbytes, draw) == [i \in 1..nbytes |-> (draw * (53 + i * 37)) % 256]

\* The position of a one-character text in the base64url alphabet, 0 for a
\* character outside it.
CharCodes == [k \in 1..64 |-> SubSeq(Base64UrlAlphabet, k, k)]

CharCode(c) ==
    IF \E k \in 1..64 : CharCodes[k] = c
    THEN CHOOSE k \in 1..64 : CharCodes[k] = c
    ELSE 0

\* The sum over the characters lo..hi of place times code, modulo 256.
RECURSIVE Checksum(_, _, _)
Checksum(text, lo, hi) ==
    IF lo > hi THEN 0
    ELSE IF lo = hi THEN (lo * CharCode(SubSeq(text, lo, lo))) % 256
    ELSE LET mid == (lo + hi) \div 2
         IN  (Checksum(text, lo, mid) + Checksum(text, mid + 1, hi)) % 256

\* hashlib.sha256(text).digest(): 32 bytes fixed by the characters of the
\* text.  The digest function itself is stood in for by a checksum spread
\* over the 32 bytes; its width and its dependence on the text alone are kept.
sha256(text) ==
    LET sum == Checksum(text, 1, Len(text))
    IN  [i \in 1..32 |-> (sum + i * 37) % 256]

\* ------------------------------------------- OAuthManager: security utilities

\* secrets.token_urlsafe(32): the n-th draw.  A 256-bit CSPRNG output is
\* modelled as a value no other draw returns.
generate_state(n) == "st" \o ToString(n)

\* secrets.token_urlsafe(96): the n-th draw, likewise unique.
generate_code_verifier(n) == "cv" \o ToString(n)

\* base64url(sha256(verifier)) without padding: an injective symbolic digest.
generate_code_challenge(code_verifier) == "S256(" \o code_verifier \o ")"

\* Faulty variant: one random byte more than the PKCE bound has room for.
code_verifier_long(draw) == token_urlsafe(Urandom(97, draw))

\* The characters of a code verifier: secrets.token_urlsafe(96) on the
\* given draw of the random source.
code_verifier_text(draw) == token_urlsafe(Urandom(96, draw))

\* Faulty variant: the digest is salted with the number of secrets drawn.
code_challenge_salted(code_verifier) ==
    RStripPadding(urlsafe_b64encode(sha256(code_verifier \o ToString(attempts))))

\* The characters of a code challenge:
\* base64.urlsafe_b64encode(sha256(verifier).digest()).decode().rstrip('=')
code_challenge_text(code_verifier) ==
    RStripPadding(urlsafe_b64encode(sha256(code_verifier)))

\* ------------------------------------------- OAuthManager: authorization URLs

\* Faulty variant: access_type and prompt are left out of the query.
get_google_auth_url_without_consent(client_id, redirect_uri, state, n) ==
    LET st == IF ~Truthy(state) THEN generate_state(n) ELSE state
        code_verifier == generate_code_verifier(n)
        ruri == IF ~Truthy(redirect_uri) THEN get_google_redirect_uri
                ELSE redirect_uri
        params == [client_id |-> client_id,
                   redirect_uri |-> ruri,
                   scope |-> "openid email profile",
                   response_type |-> "code",
                   state |-> st,
                   code_challenge |-> generate_code_challenge(code_verifier),
                   code_challenge_method |-> "S256"]
    IN  [url |-> [endpoint |-> GOOGLE_AUTH_URL, params |-> params],
         state |-> st,
         code_verifier |-> code_verifier]

\* get_google_auth_url(client_id, redirect_uri, state) on the n-th draw
\* -> [url, state, code_verifier]; the url is its endpoint and its query dict.
get_google_auth_url(client_id, redirect_uri, state, n) ==
    LET st == IF ~Truthy(state) THEN generate_state(n) ELSE state
        code_verifier == generate_code_verifier(n)
        code_challenge == generate_code_challenge(code_verifier)
        ruri == IF ~Truthy(redirect_uri) THEN get_google_redirect_uri
                ELSE redirect_uri
        params == [client_id |-> client_id,
                   redirect_uri |-> ruri,
                   scope |-> "openid email profile",
                   response_type |-> "code",
                   state |-> st,
                   code_challenge |-> code_challenge,
                   code_challenge_method |-> "S256",
                   access_type |-> "offline",
                   prompt |-> "consent"]
    IN  [url |-> [endpoint |-> GOOGLE_AUTH_URL, params |-> params],
         state |-> st,
         code_verifier |-> code_verifier]

\* get_linkedin_auth_url(client_id, redirect_uri, state) on the n-th draw
\* -> [url, state]: the verifier behind the challenge is not returned.
get_linkedin_auth_url(client_id, redirect_uri, state, n) ==
    LET st == IF ~Truthy(state) THEN generate_state(n) ELSE state
        code_verifier == generate_code_verifier(n)
        code_challenge == generate_code_challenge(code_verifier)
        ruri == IF ~Truthy(redirect_uri) THEN get_linkedin_redirect_uri
                ELSE redirect_uri
        params == [client_id |-> client_id,
                   redirect_uri |-> ruri,
                   scope |-> "openid profile email",
                   response_type |-> "code",
                   state |-> st,
                   code_challenge |-> code_challenge,
                   code_challenge_method |-> "S256"]
    IN  [url |-> [endpoint |-> LINKEDIN_AUTH_URL, params |-> params],
         state |-> st]

\* ------------------------------------------------- provider endpoint answers

\* What one outbound `requests` call yields: it raises, or it answers with a
\* status, a raw text and (when the text is JSON) a parsed body.
Response(raises, status, text, is_json, body) ==
    [raises |-> raises, status |-> status, text |-> text,
     is_json |-> is_json, body |-> body]

ConnectionFailed == Response(TRUE, 0, "connection failed", FALSE, EmptyDict)

\* Answers of a token endpoint.
TokenResponses ==
    { ConnectionFailed,
      Response(FALSE, 400, "{error: invalid_grant}", TRUE, EmptyDict),
      Response(FALSE, 200, "<html>", FALSE, EmptyDict),
      Response(FALSE, 200, "{}", TRUE, EmptyDict),
      Response(FALSE, 201, "{access_token: at-2}", TRUE,
               [access_token |-> "at-2", token_type |-> "Bearer"]),
      Response(FALSE, 200, "{access_token: at-1}", TRUE,
               [access_token |-> "at-1", token_type |-> "Bearer"]) }

\* Answers of Google's user-info endpoint.
GoogleUserInfoResponses ==
    { ConnectionFailed,
      Response(FALSE, 401, "{error: invalid_token}", TRUE, EmptyDict),
      Response(FALSE, 200, "{name: Ann}", TRUE, [name |-> "Ann"]),
      Response(FALSE, 200, "{id: '', name: Ann}", TRUE, [id |-> "", name |-> "Ann"]),
      Response(FALSE, 200, "{id: g-1, name: Ann, email: ann@example.com}", TRUE,
               [id |-> "g-1", name |-> "Ann", email |-> "ann@example.com"]) }

\* Answers of LinkedIn's user-info endpoint.
LinkedInUserInfoResponses ==
    { ConnectionFailed,
      Response(FALSE, 401, "{error: invalid_token}", TRUE, EmptyDict),
      Response(FALSE, 200, "{given_name: Jane}", TRUE, [given_name |-> "Jane"]),
      Response(FALSE, 200, "{sub: 123, given_name: Jane, family_name: Doe}", TRUE,
               [sub |-> "123", given_name |-> "Jane", family_name |-> "Doe"]),
      Response(FALSE, 200, "{sub: 789, name: Bo, email_verified: true}", TRUE,
               [sub |-> "789", name |-> "Bo", email_verified |-> "true"]),
      Response(FALSE, 200, "{sub: 456, name: Li, email: li@example.com, picture: p0}",
               TRUE, [sub |-> "456", name |-> "Li", email |-> "li@example.com",
                      picture |-> "p0"]) }

\* Answers of LinkedIn's profile-picture endpoint: the body is the list
\* profilePicture.displayImage~.elements (absent: no such structure).
PictureElement(width, identifiers) == [width |-> width, identifiers |-> identifiers]

LinkedInPictureResponses ==
    { ConnectionFailed,
      Response(FALSE, 403, "{status: 403}", TRUE, EmptyDict),
      Response(FALSE, 200, "{}", TRUE, EmptyDict),
      Response(FALSE, 200, "{profilePicture: ...}", TRUE,
               [elements |-> << PictureElement(100, <<"p100">>),
                                PictureElement(400, <<"p400">>) >>]) }

\* ------------------------------------------------ OAuthManager: callbacks

\* One outbound request as the provider sees it.
Call(url, data, bearer) == [url |-> url, data |-> data, bearer |-> bearer]

\* raise Exception(prefix + message): `kind` names the failing step.
Raised(kind, message, calls) ==
    [raised |-> TRUE, kind |-> kind, message |-> message,
     value |-> EmptyDict, calls |-> calls]

Returned(identity, calls) ==
    [raised |-> FALSE, kind |-> "Completed", message |-> "",
     value |-> identity, calls |-> calls]

\* Faulty variant: the answer of the token endpoint is never examined.
token_failure_ignored(tok, provider) == ""

\* The exception text of the token exchange, "" when it yields an access
\* token: the request raising, `status_code != 200`, a body that is no JSON,
\* `if not access_token`.
token_failure(tok, provider) ==
    IF tok.raises THEN tok.text
    ELSE IF tok.status # 200 THEN "Token exchange failed: " \o tok.text
    ELSE IF ~tok.is_json THEN "JSONDecodeError"
    ELSE IF ~Truthy(Get(tok.body, "access_token"))
    THEN "No access token received from " \o provider
    ELSE ""

\* Faulty variant: the answer of the user-info endpoint is never examined.
user_info_failure_ignored(usr) == ""

\* The exception text of the user-info request, "" when it yields a body.
user_info_failure(usr) ==
    IF usr.raises THEN usr.text
    ELSE IF usr.status # 200 THEN "User info retrieval failed: " \o usr.text
    ELSE IF ~usr.is_json THEN "JSONDecodeError"
    ELSE ""

\* The token-exchange form of handle_google_callback.
google_token_data(code, client_id, client_secret, code_verifier) ==
    LET token_data == [client_id |-> client_id,
                       client_secret |-> client_secret,
                       code |-> code,
                       grant_type |-> "authorization_code",
                       redirect_uri |-> get_google_redirect_uri]
    IN  IF Truthy(code_verifier)
        THEN Set(token_data, "code_verifier", code_verifier)
        ELSE token_data

\* Faulty variant: the user-info body is accepted without an `id`.
google_user_info_unchecked(user_info) == TRUE

\* Faulty variant: the check looks at `name` instead of `id`.
google_user_info_has_name(user_info) == Truthy(Get(user_info, "name"))

\* `if not user_info.get('id'): raise` of handle_google_callback.
google_user_info_valid(user_info) == Truthy(Get(user_info, "id"))

\* handle_google_callback, given the answers tok and usr of the two endpoints.
handle_google_callback(code, state, client_id, client_secret, code_verifier, tok, usr) ==
    LET pre == "Google OAuth callback failed: "
        token_call == Call(GOOGLE_TOKEN_URL,
                           google_token_data(code, client_id, client_secret, code_verifier),
                           NONE)
        access_token == Get(tok.body, "access_token")
        user_call == Call(GOOGLE_USER_INFO_URL, EmptyDict, access_token)
        user_info == usr.body
    IN  IF token_failure(tok, "Google") # ""
        THEN Raised("TokenExchangeFailed", pre \o token_failure(tok, "Google"),
                    <<token_call>>)
        ELSE IF user_info_failure(usr) # ""
        THEN Raised("UserInfoFetchFailed", pre \o user_info_failure(usr),
                    <<token_call, user_call>>)
        ELSE IF ~google_user_info_valid(user_info)
        THEN Raised("InvalidUserInfo",
                    pre \o "Invalid user information received from Google",
                    <<token_call, user_call>>)
        ELSE Returned([id |-> Get(user_info, "id"),
                       name |-> Get(user_info, "name"),
                       email |-> Get(user_info, "email"),
                       picture |-> Get(user_info, "picture"),
                       provider |-> "google"],
                      <<token_call, user_call>>)

\* The module oauth_manager imports requests, secrets, hashlib, base64,
\* urlencode, parse_qs and Config: it binds no name `logger`, so evaluating
\* `logger.info(...)` there raises NameError.
LoggerBound == FALSE

NameErrorText == "name 'logger' is not defined"

\* The token-exchange form of handle_linkedin_callback (no code_verifier).
linkedin_token_data(code, client_id, client_secret) ==
    [client_id |-> client_id,
     client_secret |-> client_secret,
     code |-> code,
     grant_type |-> "authorization_code",
     redirect_uri |-> get_linkedin_redirect_uri]

\* `if not user_info.get('sub'): raise` of handle_linkedin_callback.
linkedin_user_info_valid(user_info) == Truthy(Get(user_info, "sub"))

\* max(elements, key=width): the first element of maximal width.
LargestImage(elements) ==
    elements[CHOOSE i \in 1..Len(elements) :
                /\ \A j \in 1..Len(elements) : elements[j].width <= elements[i].width
                /\ \A j \in 1..(i - 1) : elements[j].width < elements[i].width]

\* The picture fallback of the two failure branches: user_info's own picture.
linkedin_fallback_picture(user_info) ==
    IF Truthy(Get(user_info, "picture")) THEN Get(user_info, "picture") ELSE NONE

\* The profile-picture block of handle_linkedin_callback: its inner
\* try/except turns every exception into the fallback.
linkedin_picture_url(user_info, pic) ==
    IF pic.raises
    THEN linkedin_fallback_picture(user_info)
    ELSE IF pic.status = 200
    THEN IF ~pic.is_json \/ ~LoggerBound
         THEN linkedin_fallback_picture(user_info)
         ELSE LET elements == GetOr(pic.body, "elements", <<>>)
              IN  IF Len(elements) > 0 /\ Len(LargestImage(elements).identifiers) > 0
                  THEN LargestImage(elements).identifiers[1]
                  ELSE NONE
    ELSE linkedin_fallback_picture(user_info)

\* name = user_info.get('name') or given_name + ' ' + family_name, then
\* `name.strip() if name else 'LinkedIn User'`.
linkedin_name(user_info) ==
    LET name == IF Truthy(Get(user_info, "name"))
                THEN Get(user_info, "name")
                ELSE GetOr(user_info, "given_name", "") \o " "
                        \o GetOr(user_info, "family_name", "")
    IN  IF Truthy(name) THEN Strip(name) ELSE "LinkedIn User"

\* email = user_info.get('email') or user_info.get('email_verified')
linkedin_email(user_info) ==
    IF Truthy(Get(user_info, "email"))
    THEN Get(user_info, "email")
    ELSE Get(user_info, "email_verified")

\* handle_linkedin_callback, given the answers of the three endpoints.
handle_linkedin_callback(code, state, client_id, client_secret, tok, usr, pic) ==
    LET pre == "LinkedIn OAuth callback failed: "
        token_call == Call(LINKEDIN_TOKEN_URL,
                           linkedin_token_data(code, client_id, client_secret), NONE)
        access_token == Get(tok.body, "access_token")
        user_call == Call(LINKEDIN_USER_INFO_URL, EmptyDict, access_token)
        picture_call == Call(LINKEDIN_PICTURE_URL, EmptyDict, access_token)
        user_info == usr.body
    IN  IF token_failure(tok, "LinkedIn") # ""
        THEN Raised("TokenExchangeFailed", pre \o token_failure(tok, "LinkedIn"),
                    <<token_call>>)
        ELSE IF user_info_failure(usr) # ""
        THEN Raised("UserInfoFetchFailed", pre \o user_info_failure(usr),
                    <<token_call, user_call>>)
        ELSE IF ~LoggerBound
        THEN Raised("NameError", pre \o NameErrorText, <<token_call, user_call>>)
        ELSE IF ~linkedin_user_info_valid(user_info)
        THEN Raised("InvalidUserInfo",
                    pre \o "Invalid user information received from LinkedIn",
                    <<token_call, user_call>>)
        ELSE Returned([id |-> Get(user_info, "sub"),
                       name |-> linkedin_name(user_info),
                       email |-> linkedin_email(user_info),
                       picture |-> linkedin_picture_url(user_info, pic),
                       provider |-> "linkedin"],
                      <<token_call, user_call, picture_call>>)

\* ------------------------------------------- OAuthManager: generic methods

\* raise ValueError(f"Unsupported OAuth provider: {provider}")
unsupported_provider(provider) == "Unsupported OAuth provider: " \o provider

\* Faulty variant: a provider that is not known is treated as Google.
get_auth_url_default_google(provider, client_id, redirect_uri, state, n) ==
    IF provider = "linkedin"
    THEN [raised |-> FALSE, message |-> "",
          value |-> get_linkedin_auth_url(client_id, redirect_uri, state, n)]
    ELSE [raised |-> FALSE, message |-> "",
          value |-> get_google_auth_url(client_id, redirect_uri, state, n)]

\* get_auth_url(provider, client_id, redirect_uri, state) on the n-th draw:
\* what the provider's own builder returns, or ValueError.
get_auth_url(provider, client_id, redirect_uri, state, n) ==
    IF provider = "google"
    THEN [raised |-> FALSE, message |-> "",
          value |-> get_google_auth_url(client_id, redirect_uri, state, n)]
    ELSE IF provider = "linkedin"
    THEN [raised |-> FALSE, message |-> "",
          value |-> get_linkedin_auth_url(client_id, redirect_uri, state, n)]
    ELSE [raised |-> TRUE, message |-> unsupported_provider(provider),
          value |-> EmptyDict]

\* handle_callback(provider, code, state, client_id, client_secret): the
\* Google handler is called without a code_verifier (its default, None).
handle_callback(provider, code, state, client_id, client_secret, tok, usr, pic) ==
    IF provider = "google"
    THEN handle_google_callback(code, state, client_id, client_secret, NONE, tok, usr)
    ELSE IF provider = "linkedin"
    THEN handle_linkedin_callback(code, state, client_id, client_secret, tok, usr, pic)
    ELSE Raised("ValueError", unsupported_provider(provider), <<>>)

\* ------------------------------------------------------- app.py: the routes

\* What a route did: its outcome, the messages it flashed, where it
\* redirected, the outbound calls it issued in order, what the manager's
\* handler returned (an identity, else the empty dict) and the authorization
\* URL it built.
Result(route, outcome, flash, redirect, calls, returned, url) ==
    [route |-> route, outcome |-> outcome, flash |-> flash, redirect |-> redirect,
     calls |-> calls, returned |-> returned, url |-> url]

\* A request that is no leg of the OAuth flow.
Plain(route, outcome, flash, redirect) ==
    Result(route, outcome, flash, redirect, <<>>, EmptyDict, EmptyDict)

\* session.get('oauth_credentials', {}).get(provider, {})
provider_creds(sess, provider) ==
    GetOr(GetOr(sess, "oauth_credentials", EmptyDict), provider, EmptyDict)

\* ...get(provider, {}).get('enabled')
provider_enabled(sess, provider) ==
    GetOr(provider_creds(sess, provider), "enabled", FALSE)

Credential(client_id, client_secret) ==
    [client_id |-> client_id, client_secret |-> client_secret, enabled |-> TRUE]

\* save_credentials.  The dict read from the session is updated in place, so
\* what was added before a later validation error stays in a session that
\* already held the dict; flash() marks the session modified on every path.
save_credentials(sess, form) ==
    LET had == "oauth_credentials" \in DOMAIN sess
        creds0 == GetOr(sess, "oauth_credentials", EmptyDict)
        gid == Strip(form.google_client_id)
        gsecret == Strip(form.google_client_secret)
        gvalid == validate_oauth_credentials("google", gid, gsecret)
        creds1 == IF form.google_enabled
                  THEN Set(creds0, "google", Credential(gid, gsecret)) ELSE creds0
        gflash == IF form.google_enabled
                  THEN <<"Google OAuth credentials added successfully!">> ELSE <<>>
        lid == Strip(form.linkedin_client_id)
        lsecret == Strip(form.linkedin_client_secret)
        lvalid == validate_oauth_credentials("linkedin", lid, lsecret)
        creds2 == IF form.linkedin_enabled
                  THEN Set(creds1, "linkedin", Credential(lid, lsecret)) ELSE creds1
        lflash == IF form.linkedin_enabled
                  THEN <<"LinkedIn OAuth credentials added successfully!">> ELSE <<>>
        inplace(c) == IF had THEN Set(sess, "oauth_credentials", c) ELSE sess
    IN  IF form.google_enabled /\ ~gvalid[1]
        THEN [session |-> sess,
              res |-> Plain("save_credentials", "Invalid",
                            <<"Google credentials error: " \o gvalid[2]>>,
                            "setup_credentials")]
        ELSE IF form.linkedin_enabled /\ ~lvalid[1]
        THEN [session |-> inplace(creds1),
              res |-> Plain("save_credentials", "Invalid",
                            gflash \o <<"LinkedIn credentials error: " \o lvalid[2]>>,
                            "setup_credentials")]
        ELSE IF DOMAIN creds2 = {}
        THEN [session |-> sess,
              res |-> Plain("save_credentials", "Invalid",
                            <<"Please enable and configure at least one OAuth provider.">>,
                            "setup_credentials")]
        ELSE [session |-> Set(sess, "oauth_credentials", creds2),
              res |-> Plain("save_credentials", "Saved", gflash \o lflash,
                            "setup_credentials")]

\* str.title() of the provider names the form can carry.
Title(provider) ==
    CASE provider = "linkedin" -> "Linkedin"
      [] provider = "github" -> "Github"
      [] OTHER -> provider

\* remove_credential
remove_credential(sess, provider) ==
    LET oauth_credentials == GetOr(sess, "oauth_credentials", EmptyDict)
        provider_name == IF provider = "google" THEN "Google" ELSE Title(provider)
    IN  IF ~Truthy(provider)
        THEN [session |-> sess,
              res |-> Plain("remove_credential", "Invalid",
                            <<"No provider specified for removal.">>,
                            "setup_credentials")]
        ELSE IF provider \in DOMAIN oauth_credentials
        THEN [session |-> Set(sess, "oauth_credentials", Pop(oauth_credentials, provider)),
              res |-> Plain("remove_credential", "Removed",
                            <<provider_name \o " OAuth credentials removed successfully!">>,
                            "setup_credentials")]
        ELSE [session |-> sess,
              res |-> Plain("remove_credential", "NotFound",
                            <<provider_name \o " credentials not found.">>,
                            "setup_credentials")]

\* clear_credentials
clear_credentials(sess) ==
    [session |-> Pop(sess, "oauth_credentials"),
     res |-> Plain("clear_credentials", "Cleared",
                   <<"OAuth credentials cleared successfully.">>, "index")]

\* Faulty variant: session.clear() with nothing put back.
logout_forget_all(sess) ==
    [session |-> EmptyDict,
     res |-> Plain("logout", "LoggedOut",
                   <<"You have been logged out successfully.">>, "index")]

\* logout: session.clear(), then a non-empty credentials dict is put back.
logout(sess) ==
    LET kept == "oauth_credentials" \in DOMAIN sess
                /\ DOMAIN sess["oauth_credentials"] # {}
    IN  [session |-> IF kept
                     THEN Set(EmptyDict, "oauth_credentials", sess["oauth_credentials"])
                     ELSE EmptyDict,
         res |-> Plain("logout", "LoggedOut",
                       <<"You have been logged out successfully.">>, "index")]

\* dashboard: the page of the logged-in user, else back to the login page.
dashboard(sess) ==
    IF "user" \notin DOMAIN sess
    THEN [session |-> sess,
          res |-> Plain("dashboard", "NotLoggedIn",
                        <<"Please log in to access the dashboard.">>, "index")]
    ELSE [session |-> sess,
          res |-> Plain("dashboard", "Rendered", <<>>, NONE)]

\* api_user: the JSON body and the HTTP status of /api/user.
api_user(sess) ==
    IF "user" \notin DOMAIN sess
    THEN [status |-> 401, body |-> [error |-> "Not authenticated"]]
    ELSE [status |-> 200, body |-> sess["user"]]

\* Faulty variant: a refused login also abandons the flow in progress.
login_not_configured_resets(route, sess, provider_name) ==
    [session |-> Pop(Pop(sess, "oauth_state"), "provider"),
     res |-> Plain(route, "NotConfigured",
                   <<provider_name
                        \o " OAuth is not configured. Please setup credentials first.">>,
                   "setup_credentials")]

\* `if not session.get('oauth_credentials', {}).get(<provider>, {}).get('enabled')`
\* of a login route: flash, redirect to the setup page, nothing written.
login_not_configured(route, sess, provider_name) ==
    [session |-> sess,
     res |-> Plain(route, "NotConfigured",
                   <<provider_name
                        \o " OAuth is not configured. Please setup credentials first.">>,
                   "setup_credentials")]

\* login_google, the n-th draw being the next one.
login_google(sess, n) ==
    IF ~provider_enabled(sess, "google")
    THEN login_not_configured("login_google", sess, "Google")
    ELSE LET google_creds == sess["oauth_credentials"]["google"]
             built == get_google_auth_url(google_creds.client_id, NONE, NONE, n)
             s1 == Set(sess, "oauth_state", built.state)
             s2 == Set(s1, "code_verifier", built.code_verifier)
             s3 == Set(s2, "provider", "google")
         IN  [session |-> s3,
              res |-> Result("login_google", "AuthorizationRequested", <<>>,
                             "provider", <<>>, EmptyDict, built.url)]

\* login_linkedin, the n-th draw being the next one.
login_linkedin(sess, n) ==
    IF ~provider_enabled(sess, "linkedin")
    THEN login_not_configured("login_linkedin", sess, "LinkedIn")
    ELSE LET linkedin_creds == sess["oauth_credentials"]["linkedin"]
             built == get_linkedin_auth_url(linkedin_creds.client_id, NONE, NONE, n)
             s1 == Set(sess, "oauth_state", built.state)
             s2 == Set(s1, "provider", "linkedin")
         IN  [session |-> s2,
              res |-> Result("login_linkedin", "AuthorizationRequested", <<>>,
                             "provider", <<>>, EmptyDict, built.url)]

\* --------------------------------------------------- app.py: the callbacks

\* `if 'oauth_state' not in session`
flow_state_missing(sess) == "oauth_state" \notin DOMAIN sess

\* Faulty variant: the returned state is never compared.
state_mismatch_unchecked(sess, state) == FALSE

\* `if state != session['oauth_state']`
state_mismatch(sess, state) == state # sess["oauth_state"]

\* Faulty variant: `if code is None`, which lets an empty code through.
code_absent_only(code) == code = NONE

\* `if not code`
code_missing(code) == ~Truthy(code)

\* request.args.get('error', 'Unknown error')
error_param(args) == IF args.error = NONE THEN "Unknown error" ELSE args.error

\* Faulty variant: the stored code verifier is never looked for.
code_verifier_not_required(sess) == FALSE

\* `code_verifier = session.get('code_verifier')`, `if not code_verifier`
code_verifier_missing(sess) == ~Truthy(Get(sess, "code_verifier"))

Verdict(outcome, message) == [outcome |-> outcome, message |-> message]

\* Faulty variant: the code is checked before the returned state.
validate_callback_code_first(sess, args) ==
    IF flow_state_missing(sess)
    THEN Verdict("MissingFlowState", "Invalid session. Please try again.")
    ELSE IF code_missing(args.code)
    THEN Verdict("AuthorizationDenied", "Authorization failed: " \o error_param(args))
    ELSE IF state_mismatch(sess, args.state)
    THEN Verdict("StateMismatch", "Invalid state parameter. Possible CSRF attack.")
    ELSE Verdict("StateValidated", "")

\* The validation both callback routes open with, in the order of the code:
\* stored state, returned state, code.  "StateValidated" lets the route go on.
validate_callback(sess, args) ==
    IF flow_state_missing(sess)
    THEN Verdict("MissingFlowState", "Invalid session. Please try again.")
    ELSE IF state_mismatch(sess, args.state)
    THEN Verdict("StateMismatch", "Invalid state parameter. Possible CSRF attack.")
    ELSE IF code_missing(args.code)
    THEN Verdict("AuthorizationDenied", "Authorization failed: " \o error_param(args))
    ELSE Verdict("StateValidated", "")

\* Faulty variant: the flow artifacts are left in the session.
google_clear_nothing(sess) == sess

\* Faulty variant: the code verifier is left in the session.
google_clear_state_only(sess) == Pop(Pop(sess, "oauth_state"), "provider")

\* "Clear OAuth session data" of google_callback
google_clear_oauth_session(sess) ==
    Pop(Pop(Pop(sess, "oauth_state"), "code_verifier"), "provider")

\* "Clear OAuth session data" of linkedin_callback
linkedin_clear_oauth_session(sess) == Pop(Pop(sess, "oauth_state"), "provider")

\* Faulty variant: a callback that fails also drops the stored identity.
callback_stopped_forgets_user(route, sess, outcome, message, redirect, calls) ==
    [session |-> Pop(sess, "user"),
     res |-> Result(route, outcome, <<message>>, redirect, calls, EmptyDict, EmptyDict)]

\* A callback route that stops: it flashes the message and redirects, and
\* writes nothing to the session.
callback_stopped(route, sess, outcome, message, redirect, calls) ==
    [session |-> sess,
     res |-> Result(route, outcome, <<message>>, redirect, calls, EmptyDict, EmptyDict)]

\* Faulty variant: the callback goes back to the login page.
credentials_not_found_to_index(route, sess, provider_name) ==
    callback_stopped(route, sess, "CredentialsNotFound",
                     provider_name
                        \o " OAuth credentials not found. Please setup credentials first.",
                     "index", <<>>)

\* `if not <provider>_creds.get('enabled')` of a callback: flash, and
\* redirect to the setup page.
credentials_not_found(route, sess, provider_name) ==
    callback_stopped(route, sess, "CredentialsNotFound",
                     provider_name
                        \o " OAuth credentials not found. Please setup credentials first.",
                     "setup_credentials", <<>>)

\* google_callback with query parameters args, given the endpoints' answers.
google_callback(sess, args, tok, usr) ==
    LET stop(outcome, message, redirect, calls) ==
            callback_stopped("google_callback", sess, outcome, message, redirect, calls)
        checked == validate_callback(sess, args)
        google_creds == provider_creds(sess, "google")
        h == handle_google_callback(args.code, args.state, google_creds.client_id,
                                    google_creds.client_secret,
                                    Get(sess, "code_verifier"), tok, usr)
        user_info == h.value
        user == [id |-> Get(user_info, "id"),
                 name |-> Get(user_info, "name"),
                 email |-> Get(user_info, "email"),
                 picture |-> Get(user_info, "picture"),
                 provider |-> "google"]
    IN  IF checked.outcome # "StateValidated"
        THEN stop(checked.outcome, checked.message, "index", <<>>)
        ELSE IF code_verifier_missing(sess)
        THEN stop("MissingCodeVerifier", "Missing code verifier. Please try again.",
                  "index", <<>>)
        ELSE IF ~provider_enabled(sess, "google")
        THEN credentials_not_found("google_callback", sess, "Google")
        ELSE IF h.raised
        THEN stop(h.kind, "Error during Google authentication: " \o h.message,
                  "index", h.calls)
        ELSE IF DOMAIN user_info = {}
        THEN stop("NoUserInfo", "Failed to obtain user information.", "index", h.calls)
        ELSE [session |-> google_clear_oauth_session(Set(sess, "user", user)),
              res |-> Result("google_callback", "Completed",
                             <<"Successfully logged in with Google!">>,
                             "dashboard", h.calls, user_info, EmptyDict)]

\* linkedin_callback with query parameters args, given the endpoints' answers.
linkedin_callback(sess, args, tok, usr, pic) ==
    LET stop(outcome, message, redirect, calls) ==
            callback_stopped("linkedin_callback", sess, outcome, message, redirect, calls)
        checked == validate_callback(sess, args)
        linkedin_creds == provider_creds(sess, "linkedin")
        h == handle_linkedin_callback(args.code, args.state, linkedin_creds.client_id,
                                      linkedin_creds.client_secret, tok, usr, pic)
        user_info == h.value
        user == [id |-> Get(user_info, "id"),
                 name |-> GetOr(user_info, "name", "LinkedIn User"),
                 email |-> Get(user_info, "email"),
                 picture |-> Get(user_info, "picture"),
                 provider |-> "linkedin"]
    IN  IF checked.outcome # "StateValidated"
        THEN stop(checked.outcome, checked.message, "index", <<>>)
        ELSE IF ~provider_enabled(sess, "linkedin")
        THEN credentials_not_found("linkedin_callback", sess, "LinkedIn")
        ELSE IF h.raised
        THEN stop(h.kind, "Error during LinkedIn authentication: " \o h.message,
                  "index", h.calls)
        ELSE IF DOMAIN user_info = {}
        THEN stop("NoUserInfo", "Failed to obtain user information.", "index", h.calls)
        ELSE [session |-> linkedin_clear_oauth_session(Set(sess, "user", user)),
              res |-> Result("linkedin_callback", "Completed",
                             <<"Successfully logged in with LinkedIn!">>,
                             "dashboard", h.calls, user_info, EmptyDict)]

\* ----------------------------------------------------------- request inputs

\* Forms a browser can post to /save-credentials.
CredentialForms ==
    [google_enabled : BOOLEAN,
     google_client_id : {"1234.apps.googleusercontent.com", "1234"},
     google_client_secret : {" google-secret "},
     linkedin_enabled : BOOLEAN,
     linkedin_client_id : {"linkedin-id"},
     linkedin_client_secret : {"li-secret", ""}]

\* `provider` fields a browser can post to /remove-credential.
RemovableProviders == {NONE, "google", "linkedin", "github"}

\* State values a callback request can carry: none, one the session's logins
\* were given, or one made up by the sender.
CallbackStates == {NONE, "forged"} \cup {generate_state(i) : i \in 1..attempts}

\* Query strings a callback can arrive with.
CallbackArgs ==
    [state : CallbackStates, code : {NONE, "", "code-1"}, error : {NONE}]
    \cup [state : CallbackStates, code : {NONE}, error : {"access_denied"}]

NoArgs == [state |-> NONE, code |-> NONE, error |-> NONE]

\* ------------------------------------------------------------------ actions

\* No callback request is waiting.
Idle == EmptyDict

\* The log of one request: what the route did (res), the query parameters it
\* came with, the oauth_state the session held when it arrived, and the
\* answers the provider gave to the calls it issued.
Logged(res, args, stored, answers) ==
    [route |-> res.route, outcome |-> res.outcome, flash |-> res.flash,
     redirect |-> res.redirect, calls |-> res.calls, returned |-> res.returned,
     url |-> res.url, args |-> args, stored |-> stored, answers |-> answers]

Init ==
    /\ session = EmptyDict
    /\ attempts = 0
    /\ consumed = {}
    /\ issued = {}
    /\ BASE_URL = DefaultBaseUrl
    /\ pending = Idle
    /\ derived = EmptyDict
    /\ last = Logged(Plain("index", "Rendered", <<>>, NONE), NoArgs, NONE, <<>>)

\* The step of a request that is no callback; the state of a URL it built
\* is from then on an issued one.
Handled(r) ==
    /\ session' = r.session
    /\ last' = Logged(r.res, NoArgs, Get(session, "oauth_state"), <<>>)
    /\ issued' = IF r.res.url = EmptyDict THEN issued
                 ELSE issued \cup {r.res.url.params.state}
    /\ UNCHANGED <<consumed, BASE_URL, pending, derived>>

SaveCredentials ==
    \E form \in CredentialForms :
        /\ Handled(save_credentials(session, form))
        /\ UNCHANGED attempts

RemoveCredential ==
    \E provider \in RemovableProviders :
        /\ Handled(remove_credential(session, provider))
        /\ UNCHANGED attempts

ClearCredentials ==
    /\ Handled(clear_credentials(session))
    /\ UNCHANGED attempts

Logout ==
    /\ Handled(logout(session))
    /\ UNCHANGED attempts

Dashboard ==
    /\ Handled(dashboard(session))
    /\ UNCHANGED attempts

\* /api/user answers without flash or redirect and leaves the session alone.
ApiUser ==
    /\ Handled([session |-> session,
                res |-> Plain("api_user",
                              IF api_user(session).status = 401
                              THEN "NotAuthenticated" ELSE "Answered",
                              <<>>, NONE)])
    /\ UNCHANGED attempts

\* A login request draws from `secrets` exactly when it builds a URL.
LoginGoogle ==
    /\ provider_enabled(session, "google") => attempts < MaxAttempts
    /\ Handled(login_google(session, attempts + 1))
    /\ attempts' = IF provider_enabled(session, "google")
                   THEN attempts + 1 ELSE attempts

LoginLinkedIn ==
    /\ provider_enabled(session, "linkedin") => attempts < MaxAttempts
    /\ Handled(login_linkedin(session, attempts + 1))
    /\ attempts' = IF provider_enabled(session, "linkedin")
                   THEN attempts + 1 ELSE attempts

\* The step of a callback request; `given` are the answers the endpoints
\* would give, of which those to the calls issued are logged.  A Completed
\* flow consumes its state.
Called(r, args, given) ==
    /\ session' = r.session
    /\ last' = Logged(r.res, args, Get(session, "oauth_state"),
                      SubSeq(given, 1, Len(r.res.calls)))
    /\ consumed' = IF r.res.outcome = "Completed"
                   THEN consumed \cup {args.state} ELSE consumed
    /\ UNCHANGED <<attempts, issued, BASE_URL, pending, derived>>

\* The endpoint answers a callback step has to range over: an endpoint that
\* is not called gives no answer, so one stand-in (Silent) is enough for it.
Silent == ConnectionFailed

AnswersOf(called, responses) == IF called THEN responses ELSE {Silent}

GoogleCallback ==
    \E args \in CallbackArgs :
    \E tok \in AnswersOf(
            Len(google_callback(session, args, Silent, Silent).res.calls) >= 1,
            TokenResponses) :
    \E usr \in AnswersOf(
            Len(google_callback(session, args, tok, Silent).res.calls) >= 2,
            GoogleUserInfoResponses) :
        Called(google_callback(session, args, tok, usr), args, <<tok, usr>>)

LinkedInCallback ==
    \E args \in CallbackArgs :
    \E tok \in AnswersOf(
            Len(linkedin_callback(session, args, Silent, Silent, Silent).res.calls) >= 1,
            TokenResponses) :
    \E usr \in AnswersOf(
            Len(linkedin_callback(session, args, tok, Silent, Silent).res.calls) >= 2,
            LinkedInUserInfoResponses) :
    \E pic \in AnswersOf(
            Len(linkedin_callback(session, args, tok, usr, Silent).res.calls) >= 3,
            LinkedInPictureResponses) :
        Called(linkedin_callback(session, args, tok, usr, pic), args, <<tok, usr, pic>>)

Next ==
    \/ SaveCredentials
    \/ RemoveCredential
    \/ ClearCredentials
    \/ Logout
    \/ Dashboard
    \/ ApiUser
    \/ LoginGoogle
    \/ LoginLinkedIn
    \/ GoogleCallback
    \/ LinkedInCallback

Spec == Init /\ [][Next]_vars

\* ------------------------------- a callback request waiting for the provider

\* The `timeout` of requests.post / requests.get: the handlers pass none, so
\* it is None and the call waits for the answer without limit.
RequestTimeout == NONE

\* A provider endpoint answers the call it was sent, or never does.
Endpoints == {"responsive", "unresponsive"}

\* requests raising Timeout once a timeout that is set has run out.
TimedOut == Response(TRUE, 0, "Read timed out.", FALSE, EmptyDict)

\* The i-th answer received so far; a call not yet answered counts as failed.
AnswerAt(answers, i) == IF i <= Len(answers) THEN answers[i] ELSE Silent

\* What the callback route does with the answers received so far.
callback_result(route, sess, args, answers) ==
    IF route = "google_callback"
    THEN google_callback(sess, args, AnswerAt(answers, 1), AnswerAt(answers, 2))
    ELSE linkedin_callback(sess, args, AnswerAt(answers, 1), AnswerAt(answers, 2),
                           AnswerAt(answers, 3))

\* Answers the endpoint of the k-th outbound call of a route can give.
ResponsesOf(route, k) ==
    IF k = 1 THEN TokenResponses
    ELSE IF k = 3 THEN LinkedInPictureResponses
    ELSE IF route = "google_callback" THEN GoogleUserInfoResponses
    ELSE LinkedInUserInfoResponses

\* The callback request has been sent a call that is not answered yet.
Waiting(route, args, answers, endpoint) ==
    [route |-> route, args |-> args, answers |-> answers, endpoint |-> endpoint]

\* The route returns: the session is saved and the response goes out.
CallbackReturns(r, args, answers) ==
    /\ session' = r.session
    /\ last' = Logged(r.res, args, Get(session, "oauth_state"), answers)
    /\ consumed' = IF r.res.outcome = "Completed"
                   THEN consumed \cup {args.state} ELSE consumed
    /\ pending' = Idle
    /\ UNCHANGED <<attempts, issued, BASE_URL, derived>>

\* The route sends its next outbound call and blocks in `requests`.
CallbackWaits(route, args, answers) ==
    /\ \E endpoint \in Endpoints : pending' = Waiting(route, args, answers, endpoint)
    /\ UNCHANGED <<session, attempts, consumed, issued, last, BASE_URL, derived>>

\* A callback request arrives: it is validated and either returns at once
\* or sends the token exchange.
CallbackArrives ==
    /\ pending = Idle
    /\ \E route \in {"google_callback", "linkedin_callback"}, args \in CallbackArgs :
           LET r == callback_result(route, session, args, <<>>)
           IN  IF Len(r.res.calls) = 0
               THEN CallbackReturns(r, args, <<>>)
               ELSE CallbackWaits(route, args, <<>>)

\* The outbound call ends: the endpoint answers (or `requests` raises on a
\* timeout that is set), and the handler goes on to its next call or returns.
RequestEnds ==
    /\ pending # Idle
    /\ \E answer \in (IF pending.endpoint = "responsive"
                       THEN ResponsesOf(pending.route, Len(pending.answers) + 1)
                       ELSE IF RequestTimeout # NONE THEN {TimedOut} ELSE {}) :
           LET answers == Append(pending.answers, answer)
               r == callback_result(pending.route, session, pending.args, answers)
           IN  IF Len(r.res.calls) > Len(answers)
               THEN CallbackWaits(pending.route, pending.args, answers)
               ELSE CallbackReturns(r, pending.args, answers)

\* Under gunicorn a worker silent for `timeout = 30` seconds is killed: the
\* request ends with no response from the route and the session as it was.
WorkerKilled ==
    /\ pending # Idle
    /\ last' = Logged(Plain(pending.route, "WorkerKilled", <<>>, NONE),
                      pending.args, Get(session, "oauth_state"), pending.answers)
    /\ pending' = Idle
    /\ UNCHANGED <<session, attempts, consumed, issued, BASE_URL, derived>>

\* The requests of the browser session, handled one at a time.
LiveNext ==
    \/ pending = Idle /\ SaveCredentials
    \/ pending = Idle /\ LoginGoogle
    \/ pending = Idle /\ LoginLinkedIn
    \/ CallbackArrives
    \/ RequestEnds
    \/ WorkerKilled

\* An endpoint that is responsive does answer, and the handler then runs on.
LiveSpec == Init /\ [][LiveNext]_vars /\ WF_vars(RequestEnds)

\* ------------------------------------- the manager called directly (no routes)

\* Arguments a caller of the OAuthManager can pass.
CoreProviders == {"google", "linkedin", "github", "Google"}

CoreRedirectUris == {NONE, "https://app.example/cb"}

CoreClientIds == {"abc", "client-1"}

\* State arguments: none, empty, one of the caller's own, or one an earlier
\* authorization URL carried.
CallerStates == {NONE, "", "fixed"} \cup issued

CoreArgs(provider, client_id, redirect_uri, state, code) ==
    [provider |-> provider, client_id |-> client_id, redirect_uri |-> redirect_uri,
     state |-> state, code |-> code]

CoreInit ==
    /\ session = EmptyDict
    /\ attempts = 0
    /\ consumed = {}
    /\ issued = {}
    /\ BASE_URL \in BaseUrls
    /\ pending = Idle
    /\ derived = EmptyDict
    /\ last = Logged(Plain("OAuthManager", "Constructed", <<>>, NONE),
                     CoreArgs(NONE, NONE, NONE, NONE, NONE), NONE, <<>>)

\* A builder returned `built`: it drew from `secrets`, and the state of its
\* URL is from then on an issued one.
CoreBuilt(method, args, built) ==
    /\ attempts < MaxAttempts
    /\ attempts' = attempts + 1
    /\ issued' = issued \cup {built.url.params.state}
    /\ last' = Logged(Result(method, "Built", <<>>, NONE, <<>>, built, built.url),
                      args, NONE, <<>>)
    /\ UNCHANGED <<session, consumed, BASE_URL, pending, derived>>

\* A method raised, or a handler returned: nothing is drawn.
CoreHandled(method, args, h, given) ==
    /\ last' = Logged(Result(method, h.kind, IF h.raised THEN <<h.message>> ELSE <<>>,
                             NONE, h.calls, h.value, EmptyDict),
                      args, NONE, SubSeq(given, 1, Len(h.calls)))
    /\ UNCHANGED <<session, attempts, consumed, issued, BASE_URL, pending, derived>>

GetGoogleAuthUrl ==
    \E client_id \in CoreClientIds, redirect_uri \in CoreRedirectUris,
       state \in CallerStates :
        CoreBuilt("get_google_auth_url",
                  CoreArgs("google", client_id, redirect_uri, state, NONE),
                  get_google_auth_url(client_id, redirect_uri, state, attempts + 1))

GetLinkedInAuthUrl ==
    \E client_id \in CoreClientIds, redirect_uri \in CoreRedirectUris,
       state \in CallerStates :
        CoreBuilt("get_linkedin_auth_url",
                  CoreArgs("linkedin", client_id, redirect_uri, state, NONE),
                  get_linkedin_auth_url(client_id, redirect_uri, state, attempts + 1))

GetAuthUrl ==
    \E provider \in CoreProviders, client_id \in CoreClientIds,
       redirect_uri \in CoreRedirectUris, state \in CallerStates :
        LET args == CoreArgs(provider, client_id, redirect_uri, state, NONE)
            r == get_auth_url(provider, client_id, redirect_uri, state, attempts + 1)
        IN  IF r.raised
            THEN CoreHandled("get_auth_url", args,
                             Raised("ValueError", r.message, <<>>), <<>>)
            ELSE CoreBuilt("get_auth_url", args, r.value)

HandleCallback ==
    \E provider \in CoreProviders, code \in {"code-1"}, state \in {NONE, "fixed"} :
    \E tok \in AnswersOf(
            Len(handle_callback(provider, code, state, "client-1", "secret-1",
                                Silent, Silent, Silent).calls) >= 1,
            TokenResponses) :
    \E usr \in AnswersOf(
            Len(handle_callback(provider, code, state, "client-1", "secret-1",
                                tok, Silent, Silent).calls) >= 2,
            GoogleUserInfoResponses \cup LinkedInUserInfoResponses) :
    \E pic \in AnswersOf(
            Len(handle_callback(provider, code, state, "client-1", "secret-1",
                                tok, usr, Silent).calls) >= 3,
            LinkedInPictureResponses) :
        CoreHandled("handle_callback",
                    CoreArgs(provider, "client-1", NONE, state, code),
                    handle_callback(provider, code, state, "client-1", "secret-1",
                                    tok, usr, pic),
                    <<tok, usr, pic>>)

CoreNext ==
    \/ GetGoogleAuthUrl
    \/ GetLinkedInAuthUrl
    \/ GetAuthUrl
    \/ HandleCallback

CoreSpec == CoreInit /\ [][CoreNext]_vars

\* ----------------------------------------- the pure functions called directly

\* Arguments a caller can pass to the validation.
PureProviders == {"google", "linkedin", "github"}

PureClientIds ==
    { NONE, "",
      "1.apps.googleusercontent.com",
      "1.apps.googleusercontent.com ",
      "abcdefghij", "abcdefgh", "abcdefg",
      "abc       ", "        " }

PureSecrets ==
    { NONE, "", "secret-123", "secret-1", "short", "abc       " }

\* Draws of the random source behind a code verifier.
VerifierDraws == 0..1

\* Verifiers a caller can ask a challenge for: a generated one and one of
\* its own.
PureVerifiers == {code_verifier_text(1), "abc"}

PureArgs(provider, client_id, client_secret, code_verifier) ==
    [provider |-> provider, client_id |-> client_id,
     client_secret |-> client_secret, code_verifier |-> code_verifier]

NoPureArgs == PureArgs(NONE, NONE, NONE, NONE)

PureInit ==
    /\ session = EmptyDict
    /\ attempts = 0
    /\ consumed = {}
    /\ issued = {}
    /\ BASE_URL = DefaultBaseUrl
    /\ pending = Idle
    /\ derived = EmptyDict
    /\ last = Logged(Plain("OAuthManager", "Constructed", <<>>, NONE),
                     NoPureArgs, NONE, <<>>)

\* A function returned `value` to a caller that passed `args`.
PureReturned(function, outcome, args, value) ==
    last' = Logged(Result(function, outcome, <<>>, NONE, <<>>, value, EmptyDict),
                   args, NONE, <<>>)

ValidateOAuthCredentials ==
    \E provider \in PureProviders, client_id \in PureClientIds,
       client_secret \in PureSecrets :
        LET v == validate_oauth_credentials(provider, client_id, client_secret)
        IN  /\ PureReturned("validate_oauth_credentials",
                            IF v[1] THEN "Valid" ELSE "Invalid",
                            PureArgs(provider, client_id, client_secret, NONE),
                            [message |-> v[2]])
            /\ UNCHANGED <<session, attempts, consumed, issued, BASE_URL, pending,
                           derived>>

GenerateState ==
    /\ attempts < MaxAttempts
    /\ attempts' = attempts + 1
    /\ PureReturned("generate_state", "Drawn", NoPureArgs,
                    [state |-> generate_state(attempts + 1)])
    /\ UNCHANGED <<session, consumed, issued, BASE_URL, pending, derived>>

GenerateCodeVerifier ==
    /\ attempts < MaxAttempts
    /\ attempts' = attempts + 1
    /\ \E draw \in VerifierDraws :
            PureReturned("generate_code_verifier", "Drawn", NoPureArgs,
                         [code_verifier |-> code_verifier_text(draw)])
    /\ UNCHANGED <<session, consumed, issued, BASE_URL, pending, derived>>

\* The first challenge derived from a verifier is remembered, and whether
\* a challenge was derived from it again.
GenerateCodeChallenge ==
    \E code_verifier \in PureVerifiers :
        LET code_challenge == code_challenge_text(code_verifier)
        IN  /\ PureReturned("generate_code_challenge", "Derived",
                            PureArgs(NONE, NONE, NONE, code_verifier),
                            [code_challenge |-> code_challenge])
            /\ derived' = IF code_verifier \in DOMAIN derived
                          THEN Set(derived, code_verifier,
                                   [derived[code_verifier] EXCEPT !.again = TRUE])
                          ELSE Set(derived, code_verifier,
                                   [code_challenge |-> code_challenge,
                                    again |-> FALSE])
            /\ UNCHANGED <<session, attempts, consumed, issued, BASE_URL, pending>>

\* User-info bodies LinkedIn can answer with: with a full name, with parts
\* of a name, with an empty name and with no name at all.
PureUserInfos ==
    { [sub |-> "456", name |-> "Li"],
      [sub |-> "123", given_name |-> "Jane", family_name |-> "Doe"],
      [sub |-> "124", given_name |-> "Jane"],
      [sub |-> "125", family_name |-> "Doe"],
      [sub |-> "126", name |-> ""],
      [sub |-> "321"] }

\* The name handle_linkedin_callback puts in the identity it returns for a
\* user-info body.
FormatLinkedInName ==
    /\ \E user_info \in PureUserInfos :
            PureReturned("handle_linkedin_callback.name", "Formatted", NoPureArgs,
                         [user_info |-> user_info, name |-> linkedin_name(user_info)])
    /\ UNCHANGED <<session, attempts, consumed, issued, BASE_URL, pending, derived>>

\* Base URLs get_runtime_base_url can find configured: those of BaseUrls,
\* the example of its docstring, and one of another scheme.
RuntimeBaseUrlInputs ==
    BaseUrls \cup { ParsedUrl("https", "example.com", 8443, "/app"),
                    ParsedUrl("ftp", "example.com", 0, "") }

\* get_runtime_base_url() with Config.BASE_URL set to an input.
GetRuntimeBaseUrl ==
    /\ \E u \in RuntimeBaseUrlInputs :
            PureReturned("get_runtime_base_url", "Built", NoPureArgs,
                         [base_url |-> u, runtime_url |-> get_runtime_base_url(u)])
    /\ UNCHANGED <<session, attempts, consumed, issued, BASE_URL, pending, derived>>

PureNext ==
    \/ ValidateOAuthCredentials
    \/ GetRuntimeBaseUrl
    \/ FormatLinkedInName
    \/ GenerateState
    \/ GenerateCodeVerifier
    \/ GenerateCodeChallenge

PureSpec == PureInit /\ [][PureNext]_vars

\* ------------------------------------------------- vocabulary of the claims

CallbackRoutes == {"google_callback", "linkedin_callback"}

\* Outcomes in which a callback surfaces an error.
FailedOutcomes ==
    {"MissingFlowState", "StateMismatch", "AuthorizationDenied", "MissingCodeVerifier",
     "CredentialsNotFound", "TokenExchangeFailed", "UserInfoFetchFailed",
     "InvalidUserInfo", "NameError", "NoUserInfo"}

\* Outcomes of a callback stopped at the stored-state or returned-state check.
StateCheckFailures == {"MissingFlowState", "StateMismatch"}

ProviderOf(route) == IF route = "google_callback" THEN "google" ELSE "linkedin"

TokenUrlOf(route) ==
    IF route = "google_callback" THEN GOOGLE_TOKEN_URL ELSE LINKEDIN_TOKEN_URL

UserInfoUrlOf(route) ==
    IF route = "google_callback" THEN GOOGLE_USER_INFO_URL ELSE LINKEDIN_USER_INFO_URL

\* The subject identifier field of the provider's user-info body.
SubjectFieldOf(route) == IF route = "google_callback" THEN "id" ELSE "sub"

\* State values handed out by the login initiations so far.
IssuedStates == {generate_state(i) : i \in 1..attempts}

\* The step is a callback request.
IsCallbackStep == last'.route \in CallbackRoutes

\* The step leaves the session's user entry as it was.
UserUnchanged ==
    /\ ("user" \in DOMAIN session') = ("user" \in DOMAIN session)
    /\ "user" \in DOMAIN session => session'["user"] = session["user"]

\* The step stores an identity in the session.
UserStored ==
    /\ "user" \in DOMAIN session'
    /\ "user" \in DOMAIN session => session'["user"] # session["user"]

\* The token endpoint's answer carries an access token.
TokenGranted(answer) ==
    /\ ~answer.raises
    /\ answer.status = 200
    /\ answer.is_json
    /\ Truthy(Get(answer.body, "access_token"))

\* The user-info endpoint's answer is a parsed 200.
UserInfoFetched(answer) == ~answer.raises /\ answer.status = 200 /\ answer.is_json

PictureUrlOf(route) == LINKEDIN_PICTURE_URL

\* The endpoint answered with an HTTP status of the 2xx class.
Is2xx(answer) == ~answer.raises /\ answer.status \in 200..299

\* The flash message of a callback route whose handler raised `text`.
HandlerError(route, text) ==
    IF route = "google_callback"
    THEN "Error during Google authentication: Google OAuth callback failed: " \o text
    ELSE "Error during LinkedIn authentication: LinkedIn OAuth callback failed: " \o text

\* ------------------------------------------------------------------- claims

\* C1: for both callback routes, a callback whose returned state differs from
\* the state stored in the session (also one carrying no state) ends in
\* StateMismatch, issues no outbound call and stores no identity: the
\* session's user entry stays as it was.
C1_StateMismatchStopsFlow ==
    [][ ( /\ IsCallbackStep
          /\ "oauth_state" \in DOMAIN session
          /\ last'.args.state # session["oauth_state"] )
        => ( /\ last'.outcome = "StateMismatch"
             /\ last'.calls = <<>>
             /\ UserUnchanged ) ]_vars

C1_Witness ==
    /\ last.route = "linkedin_callback"
    /\ last.outcome = "StateMismatch"
    /\ last.args.state = NONE
    /\ last.args.code = "code-1"
    /\ last.stored \in IssuedStates

\* C2: a callback that ends in Failed discards the stored state and code
\* verifier, and a callback that follows a failed one and carries the state
\* that one was checked against stops at the state checks with no outbound call.
C2_FailedFlowDiscardsArtifacts ==
    [][ /\ ( IsCallbackStep /\ last'.outcome \in FailedOutcomes )
           => ( /\ "oauth_state" \notin DOMAIN session'
                /\ "code_verifier" \notin DOMAIN session' )
        /\ ( /\ IsCallbackStep
             /\ last.route \in CallbackRoutes
             /\ last.outcome \in FailedOutcomes
             /\ last.stored # NONE
             /\ last'.args.state = last.stored )
           => ( /\ last'.outcome \in StateCheckFailures
                /\ last'.calls = <<>> ) ]_vars

\* C3: a callback carrying the state of a flow that already reached Completed
\* stops at the stored-state or returned-state check with no outbound call,
\* so no state value completes twice.
C3_StateConsumedOnce ==
    [][ ( IsCallbackStep /\ last'.args.state \in consumed )
        => ( /\ last'.outcome \in StateCheckFailures
             /\ last'.calls = <<>>
             /\ UserUnchanged ) ]_vars

C3_Witness ==
    /\ last.route = "google_callback"
    /\ last.args.state \in consumed
    /\ last.args.code = "code-1"
    /\ last.outcome = "StateMismatch"
    /\ "user" \in DOMAIN session

\* The state check a callback carrying state s would meet in session sess.
PassesStateValidation(sess, s) ==
    validate_callback(sess, [state |-> s, code |-> "code-1", error |-> NONE]).outcome
        = "StateValidated"

\* C4: when a login is initiated right after another one, in the same
\* session, the callback of the first (carrying its state) still passes state
\* validation, and so does the callback of the second.
C4_AttemptsIndependent ==
    [][ ( /\ last.outcome = "AuthorizationRequested"
          /\ last'.outcome = "AuthorizationRequested"
          /\ attempts' = attempts + 1 )
        => ( /\ PassesStateValidation(session', last.url.params.state)
             /\ PassesStateValidation(session', last'.url.params.state) ) ]_vars

\* C5: the callback reports the first failing check in the order stored
\* state, returned state, code: MissingFlowState without a stored state
\* whatever else is wrong, StateMismatch on a differing state even if the code
\* is empty, AuthorizationDenied only when the state matched.
C5_ValidationOrder ==
    last.route \in CallbackRoutes =>
        /\ last.stored = NONE => last.outcome = "MissingFlowState"
        /\ (last.stored # NONE /\ last.args.state # last.stored)
               => last.outcome = "StateMismatch"
        /\ (last.stored # NONE /\ last.args.state = last.stored
                /\ ~Truthy(last.args.code))
               => last.outcome = "AuthorizationDenied"

C5_Witness ==
    /\ last.route = "google_callback"
    /\ last.stored # NONE
    /\ last.args.state = "forged"
    /\ last.args.code = ""
    /\ last.outcome = "StateMismatch"

\* C6: for both providers a callback whose state is valid and whose code is
\* absent or empty ends in AuthorizationDenied, its message carrying the
\* provider's error parameter when there is one, and issues no token exchange.
C6_MissingCodeDenied ==
    ( /\ last.route \in CallbackRoutes
      /\ last.stored # NONE
      /\ last.args.state = last.stored
      /\ last.args.code \in {NONE, ""} )
    => ( /\ last.outcome = "AuthorizationDenied"
         /\ last.calls = <<>>
         /\ last.flash = << "Authorization failed: " \o
                             (IF last.args.error = NONE THEN "Unknown error"
                              ELSE last.args.error) >> )

C6_Witness ==
    /\ last.route = "linkedin_callback"
    /\ last.outcome = "AuthorizationDenied"
    /\ last.args.error = "access_denied"
    /\ last.args.state = last.stored

\* C7: an identity is stored in the session only by a callback that ends in
\* Completed, and a callback ends in Completed only after its state matched the
\* stored state of a login initiated earlier, its code was exchanged for an
\* access token and the user-info request made with that token succeeded, the
\* two calls being issued in that order.
C7_CompletedOnlyAlongPath ==
    [][ ( UserStored \/ (IsCallbackStep /\ last'.outcome = "Completed") )
        => ( /\ IsCallbackStep
             /\ last'.outcome = "Completed"
             /\ "oauth_state" \in DOMAIN session
             /\ last'.args.state = session["oauth_state"]
             /\ last'.args.state \in IssuedStates
             /\ Truthy(last'.args.code)
             /\ Len(last'.calls) >= 2
             /\ last'.calls[1].url = TokenUrlOf(last'.route)
             /\ last'.calls[1].data.code = last'.args.code
             /\ TokenGranted(last'.answers[1])
             /\ last'.calls[2].url = UserInfoUrlOf(last'.route)
             /\ last'.calls[2].bearer = last'.answers[1].body.access_token
             /\ UserInfoFetched(last'.answers[2])
             /\ "user" \in DOMAIN session'
             /\ session'["user"].id
                    = Get(last'.answers[2].body, SubjectFieldOf(last'.route)) ) ]_vars

C7_Witness ==
    /\ last.route = "google_callback"
    /\ last.outcome = "Completed"
    /\ "user" \in DOMAIN session
    /\ session["user"].id = "g-1"

\* The LinkedIn callback was answered with an access token and a user-info
\* body whose `sub` is not empty.
LinkedInAnswered ==
    /\ last.route = "linkedin_callback"
    /\ Len(last.answers) >= 2
    /\ TokenGranted(last.answers[1])
    /\ UserInfoFetched(last.answers[2])
    /\ Truthy(Get(last.answers[2].body, "sub"))

\* C8: a LinkedIn callback with valid state and code, an access token and a
\* user-info body with a non-empty `sub` ends in Completed and returns the
\* identity with id = sub, provider linkedin, name = `name` or else
\* given_name + " " + family_name, and email None when none is supplied,
\* whether the picture lookup succeeds or fails.
C8_LinkedInIdentity ==
    LinkedInAnswered =>
        LET info == last.answers[2].body
        IN  /\ last.outcome = "Completed"
            /\ last.returned.id = info.sub
            /\ last.returned.provider = "linkedin"
            /\ last.returned.name =
                   (IF "name" \in DOMAIN info THEN info.name
                    ELSE info.given_name \o " " \o info.family_name)
            /\ ("email" \notin DOMAIN info /\ "email_verified" \notin DOMAIN info)
                   => last.returned.email = NONE

\* The callback route that completes the flow a login route started.
CallbackOf(route) ==
    IF route = "login_google" THEN "google_callback" ELSE "linkedin_callback"

\* C9: when a login built an authorization URL carrying a code_challenge and
\* the callback of that flow (same provider, same state) issues the token
\* exchange, the request carries the code_verifier the challenge was derived
\* from.
C9_VerifierFollowsChallenge ==
    [][ ( /\ last.outcome = "AuthorizationRequested"
          /\ "code_challenge" \in DOMAIN last.url.params
          /\ last'.route = CallbackOf(last.route)
          /\ last'.args.state = last.url.params.state
          /\ Len(last'.calls) >= 1 )
        => ( /\ "code_verifier" \in DOMAIN last'.calls[1].data
             /\ generate_code_challenge(last'.calls[1].data.code_verifier)
                    = last.url.params.code_challenge ) ]_vars

\* C10: every identity a handler returned or the session holds has a non-empty
\* id and the provider of the callback route that produced it, and a callback
\* answered with a user-info body whose subject identifier is missing or empty
\* returns and stores no identity.
C10_IdentityHasIdAndProvider ==
    /\ "user" \in DOMAIN session
           => ( /\ Truthy(session["user"].id)
                /\ session["user"].provider \in {"google", "linkedin"} )
    /\ (last.route \in CallbackRoutes /\ last.returned # EmptyDict)
           => ( /\ Truthy(last.returned.id)
                /\ last.returned.provider = ProviderOf(last.route) )
    /\ (last.route \in CallbackRoutes /\ last.outcome = "Completed")
           => ( /\ last.returned # EmptyDict
                /\ "user" \in DOMAIN session
                /\ session["user"].id = last.returned.id
                /\ session["user"].provider = ProviderOf(last.route) )
    /\ ( /\ last.route \in CallbackRoutes
         /\ Len(last.answers) >= 2
         /\ ~Truthy(Get(last.answers[2].body, SubjectFieldOf(last.route))) )
           => ( last.returned = EmptyDict /\ last.outcome \in FailedOutcomes )

C10_Witness ==
    /\ last.route = "google_callback"
    /\ last.outcome = "InvalidUserInfo"
    /\ Len(last.answers) = 2
    /\ UserInfoFetched(last.answers[2])
    /\ Get(last.answers[2].body, "id") = ""
    /\ "user" \in DOMAIN session
    /\ session["user"].provider = "google"

\* C11: a callback issues at most two outbound calls for Google and at most
\* three for LinkedIn, in the order token exchange, user-info, profile
\* picture, each one once, and a later call only after the earlier one
\* succeeded.
C11_CallsInOrder ==
    last.route \in CallbackRoutes =>
        /\ Len(last.calls) <= (IF last.route = "google_callback" THEN 2 ELSE 3)
        /\ Len(last.answers) = Len(last.calls)
        /\ Len(last.calls) >= 1 => last.calls[1].url = TokenUrlOf(last.route)
        /\ Len(last.calls) >= 2 =>
               /\ last.calls[2].url = UserInfoUrlOf(last.route)
               /\ TokenGranted(last.answers[1])
               /\ last.calls[2].bearer = last.answers[1].body.access_token
        /\ Len(last.calls) >= 3 =>
               /\ last.calls[3].url = PictureUrlOf(last.route)
               /\ UserInfoFetched(last.answers[2])

C11_Witness ==
    /\ last.route = "linkedin_callback"
    /\ Len(last.calls) = 2
    /\ TokenGranted(last.answers[1])
    /\ last.answers[2].status = 401

\* C12: a token endpoint answering with a non-2xx status, or with a body
\* without access_token, makes the callback fail with TokenExchangeFailed
\* before any user-info call and without an identity; a 2xx answer carrying an
\* access_token is followed by the user-info call.
C12_TokenAnswerDecides ==
    ( /\ last.route \in CallbackRoutes
      /\ Len(last.answers) >= 1
      /\ ~last.answers[1].raises )
    => LET answer == last.answers[1]
           has_token == answer.is_json /\ Truthy(Get(answer.body, "access_token"))
       IN  /\ (~Is2xx(answer) \/ ~has_token)
                  => ( /\ last.outcome = "TokenExchangeFailed"
                       /\ Len(last.calls) = 1
                       /\ last.returned = EmptyDict )
           /\ (Is2xx(answer) /\ has_token)
                  => ( /\ Len(last.calls) >= 2
                       /\ last.calls[2].url = UserInfoUrlOf(last.route) )

\* C13: a user-info endpoint answering with a non-2xx status makes the
\* callback fail with UserInfoFetchFailed: the error carries the answer's text,
\* no identity is returned, the session's user entry stays as it was and no
\* profile-picture lookup follows.
C13_UserInfoFailureStops ==
    [][ ( /\ IsCallbackStep
          /\ Len(last'.answers) >= 2
          /\ ~last'.answers[2].raises
          /\ ~Is2xx(last'.answers[2]) )
        => ( /\ last'.outcome = "UserInfoFetchFailed"
             /\ last'.flash = << HandlerError(last'.route,
                                     "User info retrieval failed: "
                                         \o last'.answers[2].text) >>
             /\ last'.returned = EmptyDict
             /\ Len(last'.calls) = 2
             /\ UserUnchanged ) ]_vars

C13_Witness ==
    /\ last.route = "google_callback"
    /\ last.outcome = "UserInfoFetchFailed"
    /\ Len(last.answers) = 2
    /\ last.answers[2].status = 401
    /\ "user" \notin DOMAIN session

\* C14: a Google callback whose user-info body has no `id` fails with
\* InvalidUserInfo: the handler raises, the route flashes its error, nothing is
\* returned and the callback logs nobody in (the session's user entry stays as
\* it was).
C14_GoogleMissingIdFails ==
    [][ ( /\ IsCallbackStep
          /\ last'.route = "google_callback"
          /\ Len(last'.answers) = 2
          /\ UserInfoFetched(last'.answers[2])
          /\ "id" \notin DOMAIN last'.answers[2].body )
        => ( /\ last'.outcome = "InvalidUserInfo"
             /\ last'.flash = << HandlerError("google_callback",
                                     "Invalid user information received from Google") >>
             /\ last'.redirect = "index"
             /\ last'.returned = EmptyDict
             /\ UserUnchanged ) ]_vars

C14_Witness ==
    /\ last.route = "google_callback"
    /\ last.outcome = "InvalidUserInfo"
    /\ Len(last.answers) = 2
    /\ "id" \notin DOMAIN last.answers[2].body
    /\ "name" \in DOMAIN last.answers[2].body
    /\ "user" \notin DOMAIN session

C16_WrittenBeforeRedirect ==
    [][ /\ last'.outcome = "AuthorizationRequested"
           => ( /\ last'.redirect = "provider"
                /\ "oauth_state" \in DOMAIN session'
                /\ session'["oauth_state"] = last'.url.params.state
                /\ "code_challenge" \in DOMAIN last'.url.params
                       => ( /\ "code_verifier" \in DOMAIN session'
                            /\ generate_code_challenge(session'["code_verifier"])
                                   = last'.url.params.code_challenge ) )
        /\ (IsCallbackStep /\ "oauth_state" \in DOMAIN session)
           => ( /\ last'.stored = session["oauth_state"]
                /\ (last'.outcome = "StateMismatch")
                       = (last'.args.state # session["oauth_state"]) ) ]_vars

\* The credentials the session holds, none being the same as an empty dict.
StoredCredentials(sess) == GetOr(sess, "oauth_credentials", EmptyDict)

\* C17: after logout, whatever the session held, it holds no user, so
\* /api/user answers 401 and /dashboard redirects to the login page, and no
\* flow artifact, while the stored OAuth credentials are what they were.
C17_LogoutDestroysIdentity ==
    [][ last'.route = "logout"
        => ( /\ "user" \notin DOMAIN session'
             /\ api_user(session').status = 401
             /\ dashboard(session').res.redirect = "index"
             /\ "oauth_state" \notin DOMAIN session'
             /\ "code_verifier" \notin DOMAIN session'
             /\ "provider" \notin DOMAIN session'
             /\ StoredCredentials(session') = StoredCredentials(session) ) ]_vars

C17_Witness ==
    /\ last.route = "logout"
    /\ last.stored # NONE
    /\ consumed # {}
    /\ "user" \notin DOMAIN session
    /\ provider_enabled(session, "google")
    /\ provider_enabled(session, "linkedin")

\* The step builds an authorization URL.
BuildsUrl == last'.outcome \in {"Built", "AuthorizationRequested"} /\ attempts' # attempts

\* C18: the state placed in an authorization URL is never one the caller
\* supplied nor one an earlier authorization URL carried, and the
\* code_challenge of a URL differs from that of the URL built before it.
C18_FreshStateEveryCall ==
    [][ BuildsUrl
        => ( /\ last'.url.params.state \notin issued
             /\ last'.url.params.state # last'.args.state
             /\ ( /\ "code_challenge" \in DOMAIN last'.url.params
                  /\ last.url # EmptyDict
                  /\ "code_challenge" \in DOMAIN last.url.params )
                => last'.url.params.code_challenge
                       # last.url.params.code_challenge ) ]_vars

\* C19: a URL builder returns url, state and code_verifier-or-None; the
\* verifier is there exactly when the URL carries a code_challenge, which is
\* then generate_code_challenge(verifier), and the URL's state is the
\* returned state.
C19_BuilderReturnsTriple ==
    last.outcome = "Built" =>
        /\ DOMAIN last.returned = {"url", "state", "code_verifier"}
        /\ last.returned.url = last.url
        /\ last.url.params.state = last.returned.state
        /\ Truthy(Get(last.returned, "code_verifier"))
               = ("code_challenge" \in DOMAIN last.url.params)
        /\ "code_challenge" \in DOMAIN last.url.params
               => last.url.params.code_challenge
                      = generate_code_challenge(Get(last.returned, "code_verifier"))

GenericMethods == {"get_auth_url", "handle_callback"}

\* C20: the generic URL builder and the generic callback handler, called with
\* a provider that is neither 'google' nor 'linkedin', raise the
\* unsupported-provider error, draw no state or verifier and issue no
\* outbound call.
C20_UnsupportedProviderRejected ==
    [][ ( /\ last'.route \in GenericMethods
          /\ last'.args.provider \notin {"google", "linkedin"} )
        => ( /\ last'.outcome = "ValueError"
             /\ last'.flash = <<"Unsupported OAuth provider: " \o last'.args.provider>>
             /\ last'.calls = <<>>
             /\ last'.url = EmptyDict
             /\ last'.returned = EmptyDict
             /\ attempts' = attempts
             /\ issued' = issued ) ]_vars

C20_Witness ==
    /\ last.route = "get_auth_url"
    /\ last.outcome = "ValueError"
    /\ last.args.provider = "github"
    /\ attempts >= 1

\* `needle in text` of Python strings.
Contains(text, needle) ==
    \E i \in 1..(Len(text) - Len(needle) + 1) :
        SubSeq(text, i, i + Len(needle) - 1) = needle

\* The secrets and raw provider payloads the last callback handled: the
\* client secret it sent, the raw text of each answer it got and each access
\* token it was granted.
SensitiveTexts ==
    { last.calls[i].data.client_secret :
          i \in {j \in 1..Len(last.calls) : "client_secret" \in DOMAIN last.calls[j].data} }
    \cup { last.answers[i].text :
              i \in {j \in 1..Len(last.answers) : ~last.answers[j].raises} }
    \cup { last.answers[i].body.access_token :
              i \in {j \in 1..Len(last.answers) :
                         "access_token" \in DOMAIN last.answers[j].body} }

\* C21: no flash message of a failed callback contains the raw body of a
\* provider answer, the client secret or an access token.
C21_NoLeakInFlash ==
    (last.route \in CallbackRoutes /\ last.outcome \in FailedOutcomes)
    => \A i \in 1..Len(last.flash) :
           \A secret \in SensitiveTexts : ~Contains(last.flash[i], secret)

\* The LinkedIn callback was answered with an access token and a user-info
\* body that has a `sub` and a picture.
LinkedInAnsweredWithPicture ==
    LinkedInAnswered /\ Truthy(Get(last.answers[2].body, "picture"))

\* C23: a LinkedIn callback whose user-info answer carries a picture yields
\* an identity with that picture and issues no profile-picture request: two
\* outbound calls, not three.
C23_UserInfoPictureFirst ==
    LinkedInAnsweredWithPicture
    => ( /\ last.outcome = "Completed"
         /\ last.returned # EmptyDict
         /\ last.returned.picture = last.answers[2].body.picture
         /\ Len(last.calls) = 2 )

\* The profile-picture lookup failed: the request raised, the status is not
\* 2xx, or the body lacks the nested structure.
PictureLookupFailed(answer) ==
    \/ answer.raises
    \/ ~Is2xx(answer)
    \/ ~answer.is_json
    \/ "elements" \notin DOMAIN answer.body

\* C24: a LinkedIn callback whose user-info answer has a `sub` goes on to the
\* profile-picture lookup when the user-info carried no picture, and a failed
\* lookup does not fail the flow: the callback ends in Completed with an
\* identity whose picture is None.
C24_PictureFailureNotFatal ==
    (LinkedInAnswered /\ ~Truthy(Get(last.answers[2].body, "picture")))
    => ( /\ Len(last.calls) = 3
         /\ PictureLookupFailed(last.answers[3])
                => ( /\ last.outcome = "Completed"
                     /\ last.returned # EmptyDict
                     /\ last.returned.picture = NONE ) )

\* C25: a LinkedIn callback whose user-info answer has a `sub` yields an
\* identity whose email is the `email` field when there is one, else the
\* `email_verified` field, else None.
C25_LinkedInEmailFallback ==
    LinkedInAnswered
    => LET info == last.answers[2].body
       IN  /\ last.outcome = "Completed"
           /\ last.returned # EmptyDict
           /\ last.returned.email =
                  (IF "email" \in DOMAIN info THEN info.email
                   ELSE IF "email_verified" \in DOMAIN info THEN info.email_verified
                   ELSE NONE)

\* A callback has ended in Completed or in Failed and nothing is waiting.
CallbackEnded ==
    /\ pending = Idle
    /\ last.route \in CallbackRoutes
    /\ last.outcome \in {"Completed"} \cup FailedOutcomes

\* C22: a callback that is waiting for a provider endpoint, responsive or
\* not, eventually ends in Completed or Failed.
C22_CallbackTerminates == (pending # Idle) ~> CallbackEnded

\* The redirect URI the configured base URL stands for.
ConfiguredRedirectUri(provider) ==
    UrlText(BASE_URL) \o "/auth/" \o provider \o "/callback"

\* C26: with no redirect URI supplied, the redirect_uri of the authorization
\* URL and of the token exchange is the configured base URL followed by
\* /auth/google/callback for Google, /auth/linkedin/callback for LinkedIn.
C26_RedirectUriFromBaseUrl ==
    /\ (last.outcome = "Built" /\ last.args.redirect_uri = NONE)
           => last.url.params.redirect_uri = ConfiguredRedirectUri(last.args.provider)
    /\ (last.route = "handle_callback" /\ Len(last.calls) >= 1)
           => last.calls[1].data.redirect_uri
                  = ConfiguredRedirectUri(last.args.provider)

\* The position of the first occurrence of `needle` in `text` at or after
\* `from`, Len(text) + 1 when there is none.
Find(text, needle, from) ==
    LET hits == {i \in from..(Len(text) - Len(needle) + 1) :
                    SubSeq(text, i, i + Len(needle) - 1) = needle}
    IN  IF hits = {} THEN Len(text) + 1
        ELSE CHOOSE i \in hits : \A j \in hits : i <= j

\* The host of a URL: what stands between "://" and the next "/".
UrlHost(url) ==
    LET start == Find(url, "://", 1) + 3
    IN  SubSeq(url, start, Find(url, "/", start) - 1)

GoogleQueryKeys ==
    {"client_id", "redirect_uri", "scope", "response_type", "state", "code_challenge",
     "code_challenge_method", "access_type", "prompt"}

\* C27: a Google authorization URL built without an explicit redirect URI
\* has host accounts.google.com and a query of exactly client_id,
\* redirect_uri, scope=openid email profile, response_type=code,
\* access_type=offline, prompt=consent, a non-empty state, a non-empty
\* code_challenge and code_challenge_method=S256; building it issues no
\* outbound call.
C27_GoogleUrlShape ==
    ( /\ last.outcome = "Built"
      /\ last.args.provider = "google"
      /\ last.args.redirect_uri = NONE )
    => LET params == last.url.params
       IN  /\ UrlHost(last.url.endpoint) = "accounts.google.com"
           /\ DOMAIN params = GoogleQueryKeys
           /\ params.client_id = last.args.client_id
           /\ Truthy(params.redirect_uri)
           /\ params.scope = "openid email profile"
           /\ params.response_type = "code"
           /\ params.access_type = "offline"
           /\ params.prompt = "consent"
           /\ Truthy(params.state)
           /\ Truthy(params.code_challenge)
           /\ params.code_challenge_method = "S256"
           /\ last.calls = <<>>

C27_Witness ==
    /\ last.route = "get_auth_url"
    /\ last.outcome = "Built"
    /\ last.args.provider = "google"
    /\ last.args.client_id = "abc"
    /\ last.args.redirect_uri = NONE
    /\ last.args.state = NONE
    /\ BASE_URL # DefaultBaseUrl

\* The shortest identifier or secret validate_oauth_credentials takes for a
\* provider.
MinCredentialLength(provider) == IF provider = "google" THEN 10 ELSE 8

\* The last operation validated a triple of credentials.
Validated == last.route = "validate_oauth_credentials"

C30_VerifierLength ==
    last.route = "generate_code_verifier" =>
        /\ Len(last.returned.code_verifier) >= 43
        /\ Len(last.returned.code_verifier) <= 128

\* A verifier was generated, of the full 128 characters.
C30_Witness ==
    /\ last.route = "generate_code_verifier"
    /\ Len(last.returned.code_verifier) = 128

\* C31: a callback route accepts (lets past its state check) only a state
\* stored by a login initiation for its own provider: when the LinkedIn
\* route accepts a callback the session's flow is a LinkedIn one, when the
\* Google route accepts one it is a Google one.
C31_CallbackOnlyForOwnFlow ==
    [][ ( /\ IsCallbackStep
          /\ last'.outcome \notin StateCheckFailures )
        => Get(session, "provider") = ProviderOf(last'.route) ]_vars

\* C32: when a callback is handled for the flow whose authorization URL was
\* built just before (same provider, same state), the redirect_uri of its
\* token-exchange request is the redirect_uri of that URL, also when the
\* caller gave the builder a redirect_uri of its own.
C32_SameRedirectUriInBothLegs ==
    [][ ( /\ last.outcome = "Built"
          /\ last'.route = "handle_callback"
          /\ last'.args.provider = last.args.provider
          /\ last'.args.state = last.url.params.state
          /\ Len(last'.calls) >= 1 )
        => last'.calls[1].data.redirect_uri = last.url.params.redirect_uri ]_vars

\* The step leaves the session's oauth_credentials entry as it was.
CredentialsUnchanged ==
    /\ ("oauth_credentials" \in DOMAIN session')
            = ("oauth_credentials" \in DOMAIN session)
    /\ "oauth_credentials" \in DOMAIN session
            => session'["oauth_credentials"] = session["oauth_credentials"]

\* C33: a callback that fails, at whatever step, leaves the session's user
\* and oauth_credentials entries as they were: an identity stored by an
\* earlier login is neither removed nor replaced.
C33_FailedCallbackKeepsIdentity ==
    [][ ( /\ IsCallbackStep
          /\ last'.outcome \in FailedOutcomes )
        => ( UserUnchanged /\ CredentialsUnchanged ) ]_vars

\* A callback failed at the user-info fetch while the session held the
\* identity of an earlier login.
C33_Witness ==
    /\ last.route \in CallbackRoutes
    /\ last.outcome = "UserInfoFetchFailed"
    /\ "user" \in DOMAIN session
    /\ "oauth_credentials" \in DOMAIN session

\* C34: the Google callback issues the token exchange only with a code
\* verifier stored in the session: a callback with the stored state and a
\* code, arriving at a session that holds no verifier, ends in
\* MissingCodeVerifier, issues no outbound call and stores no identity.
C34_NoVerifierNoExchange ==
    [][ ( last'.route = "google_callback" )
        => /\ Len(last'.calls) >= 1 => Truthy(Get(session, "code_verifier"))
           /\ ( /\ "oauth_state" \in DOMAIN session
                /\ last'.args.state = session["oauth_state"]
                /\ Truthy(last'.args.code)
                /\ ~Truthy(Get(session, "code_verifier")) )
              => ( /\ last'.outcome = "MissingCodeVerifier"
                   /\ last'.calls = <<>>
                   /\ UserUnchanged ) ]_vars

\* A Google callback with the stored state and a code found no verifier, in
\* a session whose Google credentials are enabled.
C34_Witness ==
    /\ last.route = "google_callback"
    /\ last.outcome = "MissingCodeVerifier"
    /\ last.args.state = last.stored
    /\ Truthy(last.args.code)
    /\ provider_enabled(session, "google")

\* C35: a callback with the stored state and a code, for the flow its own
\* provider's login initiated, arriving after that provider's credentials
\* were removed or cleared from the session, redirects to the setup page,
\* issues no outbound call and stores no identity.
C35_CredentialsGoneStopsCallback ==
    [][ ( /\ IsCallbackStep
          /\ "oauth_state" \in DOMAIN session
          /\ last'.args.state = session["oauth_state"]
          /\ Truthy(last'.args.code)
          /\ Get(session, "provider") = ProviderOf(last'.route)
          /\ ~provider_enabled(session, ProviderOf(last'.route)) )
        => ( /\ last'.outcome = "CredentialsNotFound"
             /\ last'.redirect = "setup_credentials"
             /\ last'.calls = <<>>
             /\ UserUnchanged ) ]_vars

\* A Google callback of a flow a Google login initiated found the Google
\* credentials gone.
C35_Witness ==
    /\ last.route = "google_callback"
    /\ last.outcome = "CredentialsNotFound"
    /\ last.args.state = last.stored
    /\ Truthy(last.args.code)
    /\ Get(session, "provider") = "google"
    /\ Truthy(Get(session, "code_verifier"))

\* C36: a save_credentials request that reports a validation error leaves
\* the session's oauth_credentials exactly as they were, also when another
\* provider of the same form was valid and the session already held
\* credentials.
C36_SaveAllOrNothing ==
    [][ ( /\ last'.route = "save_credentials"
          /\ last'.outcome = "Invalid" )
        => CredentialsUnchanged ]_vars

LoginRoutes == {"login_google", "login_linkedin"}

LoginProviderOf(route) == IF route = "login_google" THEN "google" ELSE "linkedin"

\* The step leaves the session's entry `key` as it was.
EntryUnchanged(key) ==
    /\ (key \in DOMAIN session') = (key \in DOMAIN session)
    /\ key \in DOMAIN session => session'[key] = session[key]

\* C37: a login initiation for a provider whose credentials the session does
\* not hold enabled redirects to the setup page, builds no authorization URL
\* and draws no state or verifier, and leaves the session's oauth_state,
\* code_verifier, provider and user entries as they were.
C37_RefusedLoginChangesNothing ==
    [][ ( /\ last'.route \in LoginRoutes
          /\ ~provider_enabled(session, LoginProviderOf(last'.route)) )
        => ( /\ last'.outcome = "NotConfigured"
             /\ last'.redirect = "setup_credentials"
             /\ last'.url = EmptyDict
             /\ attempts' = attempts
             /\ issued' = issued
             /\ \A key \in {"oauth_state", "code_verifier", "provider", "user"} :
                    EntryUnchanged(key) ) ]_vars

\* A login was refused in a session that holds an identity and the state
\* and verifier of a flow in progress.
C37_Witness ==
    /\ last.route \in LoginRoutes
    /\ last.outcome = "NotConfigured"
    /\ {"oauth_state", "code_verifier", "provider", "user"} \subseteq DOMAIN session

\* C38: the name of the identity the LinkedIn handler returns is not empty;
\* for a user-info body with none of name, given_name and family_name it is
\* the default "LinkedIn User".
C38_LinkedInNameNeverEmpty ==
    last.route = "handle_linkedin_callback.name" =>
        /\ last.returned.name # ""
        /\ DOMAIN last.returned.user_info
                \cap {"name", "given_name", "family_name"} = {}
            => last.returned.name = "LinkedIn User"

\* C39: get_runtime_base_url turns an https base URL into the http URL of
\* the same host and path on port 8080 (https://example.com:8443/app gives
\* http://example.com:8080/app), and no result has the scheme https.
C39_RuntimeBaseUrlHttp8080 ==
    last.route = "get_runtime_base_url" =>
        LET u == last.returned.base_url
            runtime_url == last.returned.runtime_url
        IN  /\ SubSeq(runtime_url, 1, 6) # "https:"
            /\ u.scheme = "https"
                => runtime_url = "http://" \o u.hostname \o ":8080" \o u.path

====
